---- MODULE Spec2Model ----
(***************************************************************************)
(* A model of training/finetune_yolo_anticheat.py: the dataset fetcher     *)
(* (download_datasets), the label normalizer (normalize_class,             *)
(* convert_labels) and the dataset merger (prepare_dataset).               *)
(*                                                                         *)
(* Python strings are sequences of one-character strings, so that          *)
(* lower(), strip(), split(), join(), int() and str() are computed and     *)
(* not assumed.  Loops are written as functions of the number of           *)
(* iterations done (f[k] is the loop's state after k iterations).          *)
(***************************************************************************)
EXTENDS Integers, Sequences, FiniteSets, TLC

(***************************************************************************)
(* Strings                                                                 *)
(***************************************************************************)
UPPERCASE == <<"A", "B", "C", "D", "E", "F", "G", "H", "I", "J", "K", "L", "M",
               "N", "O", "P", "Q", "R", "S", "T", "U", "V", "W", "X", "Y", "Z">>

LOWERCASE == <<"a", "b", "c", "d", "e", "f", "g", "h", "i", "j", "k", "l", "m",
               "n", "o", "p", "q", "r", "s", "t", "u", "v", "w", "x", "y", "z">>

\* The characters str.strip() and str.split() treat as whitespace.
WHITESPACE == {" ", "\t", "\n", "\r"}

DIGITS == <<"0", "1", "2", "3", "4", "5", "6", "7", "8", "9">>

\* list.index(x) counted from 1: the first position of x in s, 0 when
\* x is absent.
IndexOf(s, x) ==
    IF \E k \in 1..Len(s) : s[k] = x
    THEN CHOOSE k \in 1..Len(s) : s[k] = x /\ \A j \in 1..(k - 1) : s[j] # x
    ELSE 0

\* The lower-case letter of each upper-case letter.
LOWER_OF ==
    [c \in {UPPERCASE[k] : k \in 1..Len(UPPERCASE)} |->
        LOWERCASE[CHOOSE k \in 1..Len(UPPERCASE) : UPPERCASE[k] = c]]

\* The upper-case letter of each lower-case letter.
UPPER_OF ==
    [c \in {LOWERCASE[k] : k \in 1..Len(LOWERCASE)} |->
        UPPERCASE[CHOOSE k \in 1..Len(LOWERCASE) : LOWERCASE[k] = c]]

\* One character of str.lower().
LowerChar(c) == IF c \in DOMAIN LOWER_OF THEN LOWER_OF[c] ELSE c

\* One character of str.upper().
UpperChar(c) == IF c \in DOMAIN UPPER_OF THEN UPPER_OF[c] ELSE c

\* str.lower()
Lower(s) == [k \in 1..Len(s) |-> LowerChar(s[k])]

\* str.upper()
Upper(s) == [k \in 1..Len(s) |-> UpperChar(s[k])]

\* str.lstrip(): s from its first character that is no whitespace.
LStrip(s) ==
    SubSeq(s,
           CHOOSE k \in 1..(Len(s) + 1) :
               /\ k = Len(s) + 1 \/ s[k] \notin WHITESPACE
               /\ \A j \in 1..(k - 1) : s[j] \in WHITESPACE,
           Len(s))

\* str.rstrip(): s up to its last character that is no whitespace.
RStrip(s) ==
    SubSeq(s, 1,
           CHOOSE k \in 0..Len(s) :
               /\ k = 0 \/ s[k] \notin WHITESPACE
               /\ \A j \in (k + 1)..Len(s) : s[j] \in WHITESPACE)

\* str.strip()
Strip(s) == RStrip(LStrip(s))

(***************************************************************************)
(* Configuration                                                           *)
(***************************************************************************)
PERSON == <<"p", "e", "r", "s", "o", "n">>

PHONE == <<"p", "h", "o", "n", "e">>

MATERIAL == <<"m", "a", "t", "e", "r", "i", "a", "l">>

HEADPHONES == <<"h", "e", "a", "d", "p", "h", "o", "n", "e", "s">>

TARGET_CLASSES == <<PERSON, PHONE, MATERIAL, HEADPHONES>>

\* The synonym table, as the sequence of its (key, target) items in the
\* order the dict literal lists them.
CLASS_MAPPING ==
    <<
       <<<<"p", "e", "r", "s", "o", "n">>, PERSON>>,
       <<<<"s", "t", "u", "d", "e", "n", "t">>, PERSON>>,
       <<<<"f", "a", "c", "e">>, PERSON>>,
       <<<<"h", "e", "a", "d">>, PERSON>>,
       <<<<"h", "u", "m", "a", "n">>, PERSON>>,
       <<<<"p", "e", "o", "p", "l", "e">>, PERSON>>,
       <<<<"m", "a", "n">>, PERSON>>,
       <<<<"w", "o", "m", "a", "n">>, PERSON>>,
       <<<<"p", "h", "o", "n", "e">>, PHONE>>,
       <<<<"m", "o", "b", "i", "l", "e">>, PHONE>>,
       <<<<"c", "e", "l", "l", " ", "p", "h", "o", "n", "e">>, PHONE>>,
       <<<<"t", "e", "l", "e", "p", "h", "o", "n", "e">>, PHONE>>,
       <<<<"s", "m", "a", "r", "t", "p", "h", "o", "n", "e">>, PHONE>>,
       <<<<"c", "e", "l", "l", "p", "h", "o", "n", "e">>, PHONE>>,
       <<<<"m", "o", "b", "i", "l", "e", " ", "p", "h", "o", "n", "e">>, PHONE>>,
       <<<<"i", "p", "h", "o", "n", "e">>, PHONE>>,
       <<<<"a", "n", "d", "r", "o", "i", "d">>, PHONE>>,
       <<<<"p", "a", "p", "e", "r">>, MATERIAL>>,
       <<<<"d", "o", "c", "u", "m", "e", "n", "t">>, MATERIAL>>,
       <<<<"b", "o", "o", "k">>, MATERIAL>>,
       <<<<"n", "o", "t", "e", "b", "o", "o", "k">>, MATERIAL>>,
       <<<<"n", "o", "t", "e", "s">>, MATERIAL>>,
       <<<<"s", "h", "e", "e", "t">>, MATERIAL>>,
       <<<<"m", "a", "t", "e", "r", "i", "a", "l">>, MATERIAL>>,
       <<<<"c", "h", "e", "a", "t", " ", "s", "h", "e", "e", "t">>, MATERIAL>>,
       <<<<"h", "e", "a", "d", "p", "h", "o", "n", "e">>, HEADPHONES>>,
       <<<<"h", "e", "a", "d", "p", "h", "o", "n", "e", "s">>, HEADPHONES>>,
       <<<<"e", "a", "r", "p", "h", "o", "n", "e">>, HEADPHONES>>,
       <<<<"e", "a", "r", "p", "h", "o", "n", "e", "s">>, HEADPHONES>>,
       <<<<"h", "e", "a", "d", "s", "e", "t">>, HEADPHONES>>,
       <<<<"e", "a", "r", "b", "u", "d", "s">>, HEADPHONES>>,
       <<<<"e", "a", "r", "b", "u", "d">>, HEADPHONES>>,
       <<<<"a", "i", "r", "p", "o", "d", "s">>, HEADPHONES>>,
       <<<<"e", "a", "r", " ", "d", "e", "v", "i", "c", "e">>, HEADPHONES>>
    >>

\* The dataset names of ROBOFLOW_DATASETS, in order (the URLs are opaque
\* arguments of the download command and are left out).
ROBOFLOW_DATASETS ==
    << <<"p", "h", "o", "n", "e", "_", "1">>,
       <<"p", "h", "o", "n", "e", "_", "2">>,
       <<"p", "a", "p", "e", "r", "_", "1">>,
       <<"p", "a", "p", "e", "r", "_", "2">>,
       <<"h", "e", "a", "d", "p", "h", "o", "n", "e", "s", "_", "1">>,
       <<"h", "e", "a", "d", "p", "h", "o", "n", "e", "s", "_", "2">>,
       <<"p", "e", "r", "s", "o", "n", "_", "1">> >>

\* The indices of the configured datasets.
Datasets == 1..Len(ROBOFLOW_DATASETS)

(***************************************************************************)
(* normalize_class                                                         *)
(***************************************************************************)
\* The loop over CLASS_MAPPING.items(): the position in TARGET_CLASSES of
\* the target of the first item whose key.lower() equals class_name, -1
\* when the loop ends without a match.
NormalizeScan(class_name) ==
    IF \E k \in 1..Len(CLASS_MAPPING) : Lower(CLASS_MAPPING[k][1]) = class_name
    THEN IndexOf(TARGET_CLASSES,
                 CLASS_MAPPING[CHOOSE k \in 1..Len(CLASS_MAPPING) :
                     /\ Lower(CLASS_MAPPING[k][1]) = class_name
                     /\ \A j \in 1..(k - 1) :
                           Lower(CLASS_MAPPING[j][1]) # class_name][2]) - 1
    ELSE -1

\* normalize_class without the call of strip().
normalize_class_nostrip(class_name) == NormalizeScan(Lower(class_name))

\* normalize_class(class_name): the canonical index of a label, -1 when the
\* label is not in the table.
normalize_class(class_name) == NormalizeScan(Strip(Lower(class_name)))

(***************************************************************************)
(* Label lines                                                             *)
(***************************************************************************)
\* The positions of s where a run of non-whitespace characters starts.
FieldStarts(s) ==
    {k \in 1..Len(s) : s[k] \notin WHITESPACE /\ (k = 1 \/ s[k - 1] \in WHITESPACE)}

\* The last position of the run of non-whitespace characters starting at k.
FieldEnd(s, k) ==
    CHOOSE e \in k..Len(s) :
        /\ \A j \in k..e : s[j] \notin WHITESPACE
        /\ e = Len(s) \/ s[e + 1] \in WHITESPACE

\* The start of the n-th run of non-whitespace characters of s.
FieldStart(s, n) ==
    CHOOSE k \in FieldStarts(s) : Cardinality({j \in FieldStarts(s) : j <= k}) = n

\* str.split() with no separator: the runs of non-whitespace characters.
Split(s) ==
    [n \in 1..Cardinality(FieldStarts(s)) |->
        SubSeq(s, FieldStart(s, n), FieldEnd(s, FieldStart(s, n)))]

\* ' '.join(parts)
Join(parts) ==
    LET joined[k \in 0..Len(parts)] ==
            IF k = 0 THEN <<>>
            ELSE IF k = 1 THEN parts[1]
            ELSE joined[k - 1] \o <<" ">> \o parts[k]
    IN  joined[Len(parts)]

\* The value of a run of decimal digits.
DigitsValue(s) ==
    LET value[k \in 0..Len(s)] ==
            IF k = 0 THEN 0
            ELSE 10 * value[k - 1] + (IndexOf(DIGITS, s[k]) - 1)
    IN  value[Len(s)]

\* Whether s is a non-empty run of decimal digits.
IsDigits(s) ==
    /\ s # <<>>
    /\ \A k \in 1..Len(s) : IndexOf(DIGITS, s[k]) # 0

\* int(s) of a whitespace-free string: an optional sign and decimal digits;
\* ok is FALSE where int() raises ValueError.
ParseInt(s) ==
    IF s # <<>> /\ Head(s) \in {"+", "-"}
    THEN IF IsDigits(Tail(s))
         THEN [ok |-> TRUE,
               val |-> IF Head(s) = "-" THEN 0 - DigitsValue(Tail(s))
                       ELSE DigitsValue(Tail(s))]
         ELSE [ok |-> FALSE, val |-> 0]
    ELSE IF IsDigits(s) THEN [ok |-> TRUE, val |-> DigitsValue(s)]
         ELSE [ok |-> FALSE, val |-> 0]

\* str(n) of an integer n >= 0.
NatStr(n) ==
    LET digits[m \in 0..n] ==
            IF m < 10 THEN <<DIGITS[m + 1]>>
            ELSE digits[m \div 10] \o <<DIGITS[(m % 10) + 1]>>
    IN  digits[n]

\* str(n)
IntStr(n) == IF n < 0 THEN <<"-">> \o NatStr(0 - n) ELSE NatStr(n)

\* The field count below which a label line is discarded.
MIN_FIELDS == 5

\* The range test of convert_labels on the class index of a line.
IndexAccepted(old_class_id, n) == old_class_id < n

\* The field test of a label line with the comparison off by one.
TooShort_offbyone(parts) == Len(parts) < MIN_FIELDS - 1

\* The field test of convert_labels: the line is discarded when it holds.
TooShort(parts) == Len(parts) < MIN_FIELDS

\* source_classes[index] with Python's indexing: a negative index counts from the
\* end; ok is FALSE where the subscript raises IndexError.
PyIndex(source_classes, index) ==
    IF 0 <= index /\ index < Len(source_classes)
    THEN [ok |-> TRUE, val |-> source_classes[index + 1]]
    ELSE IF index < 0 /\ 0 - index <= Len(source_classes)
         THEN [ok |-> TRUE, val |-> source_classes[Len(source_classes) + index + 1]]
         ELSE [ok |-> FALSE, val |-> <<>>]

\* The rewritten fields with the geometry fields dropped.
Rewritten_classonly(parts, new_class_id) == <<IntStr(new_class_id)>>

\* parts with parts[0] = str(new_class_id).
Rewritten(parts, new_class_id) ==
    [parts EXCEPT ![1] = IntStr(new_class_id)]

\* The end of the loop body, the class name being known: the line is kept,
\* rewritten, when its class is in the table.
ConvertNamed(parts, new_class_id) ==
    IF new_class_id >= 0
    THEN [res |-> "keep", line |-> Join(Rewritten(parts, new_class_id)), error |-> ""]
    ELSE [res |-> "skip", line |-> <<>>, error |-> ""]

\* The loop body from int(parts[0]) on, old being what int() gave.
ConvertIndexed(parts, old, source_classes) ==
    IF ~old.ok THEN [res |-> "raise", line |-> <<>>, error |-> "ValueError"]
    ELSE IF ~IndexAccepted(old.val, Len(source_classes))
         THEN [res |-> "skip", line |-> <<>>, error |-> ""]
    ELSE IF ~PyIndex(source_classes, old.val).ok
         THEN [res |-> "raise", line |-> <<>>, error |-> "IndexError"]
    ELSE ConvertNamed(parts, normalize_class(PyIndex(source_classes, old.val).val))

\* The loop body from the field test on.
ConvertParts(parts, source_classes) ==
    IF TooShort(parts) THEN [res |-> "skip", line |-> <<>>, error |-> ""]
    ELSE ConvertIndexed(parts, ParseInt(parts[1]), source_classes)

\* One iteration of the loop over the lines of a label file: "skip" when the
\* line adds nothing to new_lines, "keep" with the rewritten line, "raise"
\* when int() raises ValueError or the subscript raises IndexError.
ConvertLine(line, source_classes) ==
    ConvertParts(Split(Strip(line)), source_classes)

\* new_lines (and the rest of the loop's state) after one more line, r being
\* what the loop body made of line k.
AfterLine(acc, r, k) ==
    IF acc.raised THEN acc
    ELSE IF r.res = "raise" THEN [acc EXCEPT !.raised = TRUE, !.error = r.error]
    ELSE IF r.res = "keep"
         THEN [acc EXCEPT !.new_lines = Append(@, r.line), !.idx = Append(@, k)]
         ELSE acc

\* The loop over the lines of one label file: new_lines, the positions in
\* the source file of the lines kept (idx, for the properties only) and
\* whether a line raised.
ConvertLines(lines, source_classes) ==
    LET after[k \in 0..Len(lines)] ==
            IF k = 0 THEN [new_lines |-> <<>>, idx |-> <<>>, raised |-> FALSE, error |-> ""]
            ELSE AfterLine(after[k - 1], ConvertLine(lines[k], source_classes), k)
    IN  after[Len(lines)]

(***************************************************************************)
(* File names                                                              *)
(***************************************************************************)
\* The folders of a dataset that convert_labels reads, in order.
SPLIT_NAMES == <<"train", "valid", "test">>

\* The suffixes of the files convert_labels takes for images.
IMAGE_SUFFIXES ==
    { <<".", "j", "p", "g">>, <<".", "j", "p", "e", "g">>, <<".", "p", "n", "g">> }

TXT == <<".", "t", "x", "t">>

DATA_YAML == <<"d", "a", "t", "a", ".", "y", "a", "m", "l">>

\* str.endswith(suffix)
EndsWith(s, suffix) ==
    /\ Len(suffix) <= Len(s)
    /\ SubSeq(s, Len(s) - Len(suffix) + 1, Len(s)) = suffix

\* img_file.lower().endswith(('.jpg', '.jpeg', '.png'))
IsImage(img_file) == \E suffix \in IMAGE_SUFFIXES : EndsWith(Lower(img_file), suffix)

\* os.path.splitext(name)[0] of a name without a directory: the name up to
\* its last dot, a dot counting only when a character other than a dot
\* comes before it.
SplitExtRoot(name) ==
    IF \E k \in 1..Len(name) : name[k] = "." /\ \E j \in 1..(k - 1) : name[j] # "."
    THEN SubSeq(name, 1,
                (CHOOSE k \in 1..Len(name) :
                    /\ name[k] = "."
                    /\ \A j \in (k + 1)..Len(name) : name[j] # ".") - 1)
    ELSE name

\* lbl_file: the name of the label file paired with an image.
LabelFileOf(img_file) == SplitExtRoot(img_file) \o TXT

\* f"{Path(dataset_dir).name}_{file}"
DstName(d, file) == ROBOFLOW_DATASETS[d] \o <<"_">> \o file

(***************************************************************************)
(* The merge output directory                                              *)
(*                                                                         *)
(* A directory tree is [exists, dirs, files]: whether the directory        *)
(* exists, its subdirectories, and a function from <<subdirectory, name>>  *)
(* to the content of each file ("" is the directory itself).               *)
(***************************************************************************)
NoFiles == [p \in {} |-> [kind |-> "none"]]

NoOutput == [exists |-> FALSE, dirs |-> {}, files |-> NoFiles]

\* files with the file at path p created or overwritten.
WriteFile(files, p, content) ==
    [q \in (DOMAIN files) \cup {p} |-> IF q = p THEN content ELSE files[q]]

\* os.path.join(output_dir, split, 'images') below output_dir.
ImagesOut(split) == IF split = "train" THEN "train/images" ELSE "valid/images"

\* os.path.join(output_dir, split, 'labels') below output_dir.
LabelsOut(split) == IF split = "train" THEN "train/labels" ELSE "valid/labels"

\* The two os.makedirs(..., exist_ok=True) calls of convert_labels.
MakeDirs(out, split) ==
    [out EXCEPT !.exists = TRUE,
                !.dirs = @ \cup {ImagesOut(split), LabelsOut(split)}]

\* The clearing of the output directory left out.
Rmtree_keep(out) == out

\* shutil.rmtree(output_dir)
Rmtree(out) == NoOutput

(***************************************************************************)
(* The raw datasets                                                        *)
(*                                                                         *)
(* raw is [dirs, yaml, images, labels]: the datasets whose directory       *)
(* exists, each dataset's data.yaml ([found, names], names being the list  *)
(* config.get('names', []) yields), the image folder entries               *)
(* <<dataset, folder, file>> and the lines of each label file              *)
(* <<dataset, folder, file>>.  An image folder that does not exist and one *)
(* that is empty both contribute no entry.                                 *)
(***************************************************************************)
\* os.listdir(img_dir), as a set.
ListDir(raw, d, split_name) ==
    {e[3] : e \in {x \in raw.images : x[1] = d /\ x[2] = split_name}}

\* The orders in which os.listdir may return the files of a set.
Perms(S) ==
    {s \in [1..Cardinality(S) -> S] : \A a, b \in 1..Cardinality(S) : s[a] = s[b] => a = b}

\* The folders of a dataset, as a set.
SplitNameSet == {SPLIT_NAMES[k] : k \in 1..Len(SPLIT_NAMES)}

\* One listing order for each folder of dataset d.
ListOrders(raw, d) ==
    {o \in [SplitNameSet -> UNION {Perms(ListDir(raw, d, f)) : f \in SplitNameSet}] :
        \A f \in SplitNameSet : o[f] \in Perms(ListDir(raw, d, f))}

(***************************************************************************)
(* Inputs                                                                  *)
(***************************************************************************)
\* The most images the raw datasets hold, all folders together.
MaxImages == 2

\* The most runs of prepare_dataset (or of download_datasets) in a row.
MaxRuns == 2

\* The datasets that may have been downloaded.
CandidateDatasets == {1, 2}

\* File names met in an image folder: two images sharing their label file
\* name, one of them with an upper-case suffix, and a file that is no image.
A_JPG == <<"a", ".", "j", "p", "g">>

A_PNG == <<"a", ".", "P", "N", "G">>

N_GIF == <<"n", ".", "g", "i", "f">>

ImageFiles == {A_JPG, A_PNG, N_GIF}

\* The image folder entries <<dataset, folder, file>> the raw datasets are
\* made of: the first dataset with files in its three folders, one name
\* being in all of them, and the second with the same name again.
ImageSlots ==
    ({1} \X {"train"} \X ImageFiles)
        \cup ({1} \X {"valid"} \X {A_JPG, A_PNG})
        \cup ({1} \X {"test"} \X {A_JPG})
        \cup ({2} \X {"train"} \X {A_JPG})

\* A names list: index 0 a synonym of phone with blanks and capitals,
\* index 1 a label outside the table, index 2 (the last) a synonym of material.
NAMES_MIXED == << <<" ", "C", "e", "l", "l", " ", "P", "h", "o", "n", "e">>, <<"d", "o", "g">>, <<"P", "a", "p", "e", "r">> >>

\* data.yaml: absent, present without names, present with NAMES_MIXED.
NoYaml == [found |-> FALSE, names |-> <<>>]

YamlChoices == {NoYaml, [found |-> TRUE, names |-> <<>>], [found |-> TRUE, names |-> NAMES_MIXED]}

\* A label file with a line of each kind: kept (blanks doubled), class
\* outside the table, four fields, six fields, index past the end of names,
\* negative index, empty.
LBL_MIXED ==
    << <<"0", " ", " ", ".", "5", " ", ".", "5", " ", ".", "2", " ", ".", "3">>,
       <<"1", " ", ".", "1", " ", ".", "1", " ", ".", "1", " ", ".", "1">>,
       <<"0", " ", ".", "5", " ", ".", "5", " ", ".", "2">>,
       <<"2", " ", ".", "4", " ", ".", "4", " ", ".", "1", " ", ".", "1", " ", ".", "9">>,
       <<"3", " ", ".", "5", " ", ".", "5", " ", ".", "2", " ", ".", "3">>,
       <<"-", "1", " ", ".", "6", " ", ".", "6", " ", ".", "2", " ", ".", "2">>,
       <<>> >>

\* A label file of one well-formed line naming a known synonym.
LBL_SINGLE ==
    << <<" ", "0", " ", ".", "5", " ", ".", "5", " ", ".", "2", " ", ".", "3">> >>

\* A label file whose second line has a class index int() rejects.
LBL_BAD ==
    << <<"0", " ", ".", "5", " ", ".", "5", " ", ".", "2", " ", ".", "3">>,
       <<"0", ".", "0", " ", ".", "5", " ", ".", "5", " ", ".", "2", " ", ".", "3">> >>

LabelChoices == {LBL_MIXED, LBL_SINGLE, LBL_BAD}

\* The contents of the image folders of the raw datasets.
ImageSets == {S \in SUBSET ImageSlots : Cardinality(S) <= MaxImages}

\* The label files the images of S are paired with.
LabelKeys(S) == {<<e[1], e[2], LabelFileOf(e[3])>> : e \in {x \in S : IsImage(x[3])}}

\* A merge output directory left by an earlier run, told apart by content.
StaleOutput ==
    [exists |-> TRUE,
     dirs |-> {"train/images", "train/labels", "valid/images", "valid/labels"},
     files |-> WriteFile(WriteFile(WriteFile(NoFiles,
                  <<"train/labels", DstName(1, LabelFileOf(A_JPG))>>, [kind |-> "stale"]),
                  <<"valid/images", <<"o", "l", "d", ".", "j", "p", "g">>>>, [kind |-> "stale"]),
                  <<"", DATA_YAML>>, [kind |-> "stale"])]

PriorOutputs == {NoOutput, StaleOutput}

\* ConvertLines on every label file and names list of the inputs, as an
\* explicit function (what @@ yields), evaluated once for all states.
LabelResults ==
    [x \in LabelChoices \X {y.names : y \in YamlChoices} |->
        ConvertLines(x[1], x[2])] @@ <<>>

(***************************************************************************)
(* convert_labels                                                          *)
(*                                                                         *)
(* The state of one call is [out, count, raised, error, copied]: the       *)
(* output directory, the count returned, whether an exception left the     *)
(* call and which, and (for the properties only) the copies made, each     *)
(* with its source image and the destination paths computed for the image  *)
(* and its label file.                                                     *)
(***************************************************************************)
\* The folders read, were the split argument to select the source folder.
FoldersRead_own(split) == <<split>>

\* The folders of the dataset a call of convert_labels reads.
FoldersRead(split) == SPLIT_NAMES

\* The loop over the lines of a label file, looked up where it is known.
ConvertLabelFile(lines, source_classes) ==
    IF <<lines, source_classes>> \in DOMAIN LabelResults
    THEN LabelResults[<<lines, source_classes>>]
    ELSE ConvertLines(lines, source_classes)

\* shutil.copy(src_img, dst_img)
CopyImage(st, split, src, dst_img, dst_lbl) ==
    [st EXCEPT
        !.out.files = WriteFile(@, dst_img, [kind |-> "image", src |-> src]),
        !.copied = @ \cup {[split |-> split, src |-> src,
                            dst_img |-> dst_img, dst_lbl |-> dst_lbl]}]

\* The end of the loop body: c is what the loop over the lines gave; the
\* label file is written, and counted, when new_lines is not empty.
WriteLabel(st, c, src_lbl, dst_lbl) ==
    IF c.raised THEN [st EXCEPT !.raised = TRUE, !.error = c.error]
    ELSE IF c.new_lines # <<>>
         THEN [st EXCEPT
                 !.out.files = WriteFile(@, dst_lbl,
                     [kind |-> "label", lines |-> c.new_lines,
                      from |-> src_lbl, idx |-> c.idx]),
                 !.count = @ + 1]
         ELSE st

\* The loop body from "Convert label" on, the image being copied.
ConvertLabel(st, raw, d, src_lbl, dst_lbl) ==
    IF src_lbl \notin DOMAIN raw.labels THEN st
    ELSE WriteLabel(st, ConvertLabelFile(raw.labels[src_lbl], raw.yaml[d].names),
                    src_lbl, dst_lbl)

\* What the loop body computes from the name of a file of dataset d alone:
\* whether it is an image, lbl_file, and the names of dst_img and dst_lbl.
FileNames(d, img_file) ==
    [is_image |-> IsImage(img_file),
     lbl_file |-> LabelFileOf(img_file),
     dst_img |-> DstName(d, img_file),
     dst_lbl |-> DstName(d, LabelFileOf(img_file))]

\* FileNames on every dataset and file name of the inputs, as an explicit
\* function, evaluated once for all states.
FileNameResults ==
    [x \in Datasets \X ImageFiles |-> FileNames(x[1], x[2])] @@ <<>>

\* FileNames, looked up where it is known.
FileNamesOf(d, img_file) ==
    IF <<d, img_file>> \in DOMAIN FileNameResults
    THEN FileNameResults[<<d, img_file>>]
    ELSE FileNames(d, img_file)

\* The loop body for an image, n being FileNamesOf it.
ProcessNamed(st, raw, d, split, split_name, img_file, n) ==
    IF ~n.is_image THEN st
    ELSE ConvertLabel(
             CopyImage(st, split, <<d, split_name, img_file>>,
                       <<ImagesOut(split), n.dst_img>>,
                       <<LabelsOut(split), n.dst_lbl>>),
             raw, d,
             <<d, split_name, n.lbl_file>>,
             <<LabelsOut(split), n.dst_lbl>>)

\* The body of the loop over os.listdir(img_dir) for one file.
ProcessImage(st, raw, d, split, split_name, img_file) ==
    IF st.raised THEN st
    ELSE ProcessNamed(st, raw, d, split, split_name, img_file,
                      FileNamesOf(d, img_file))

\* The loop over os.listdir(img_dir), the listing being order.
ProcessFiles(st, raw, d, split, split_name, order) ==
    LET after[k \in 0..Len(order)] ==
            IF k = 0 THEN st
            ELSE ProcessImage(after[k - 1], raw, d, split, split_name, order[k])
    IN  after[Len(order)]

\* The loop over the folders; ord gives the listing order of each folder.
ProcessFolders(st, raw, d, split, folders, ord) ==
    LET after[f \in 0..Len(folders)] ==
            IF f = 0 THEN st
            ELSE ProcessFiles(after[f - 1], raw, d, split, folders[f], ord[folders[f]])
    IN  after[Len(folders)]

\* convert_labels(dataset_dir, output_dir, split) for dataset d.
convert_labels(out, raw, d, split, ord) ==
    IF ~raw.yaml[d].found
    THEN [out |-> MakeDirs(out, split), count |-> 0, raised |-> FALSE,
          error |-> "", copied |-> {}]
    ELSE ProcessFolders([out |-> MakeDirs(out, split), count |-> 0,
                         raised |-> FALSE, error |-> "", copied |-> {}],
                        raw, d, split, FoldersRead(split), ord)

\* The path prepare_dataset writes the manifest to and returns.
ManifestPath == <<"", DATA_YAML>>

\* The content of the merged manifest.
Manifest ==
    [kind |-> "manifest", train |-> "train/images", val |-> "valid/images",
     names |-> TARGET_CLASSES, nc |-> Len(TARGET_CLASSES)]

(***************************************************************************)
(* download_datasets                                                       *)
(*                                                                         *)
(* A dataset directory is "absent", "incomplete" (created, the download or *)
(* the extraction having failed) or "complete".                            *)
(***************************************************************************)
DirStates == {"absent", "incomplete", "complete"}

\* os.path.exists(dataset_dir), were a directory to count only when complete.
DirExists_complete(dir_state) == dir_state = "complete"

\* os.path.exists(dataset_dir)
DirExists(dir_state) == dir_state # "absent"

\* The three os.system calls made for dataset d in run r.
DownloadCommands(r, d) ==
    {[run |-> r, dataset |-> d, cmd |-> c] : c \in {"curl", "unzip", "rm"}}

\* The inputs of normalize_class: every key of CLASS_MAPPING as it is, in
\* capitals, within whitespace, both, and with whitespace inside the word,
\* and strings that are no key.
Decorated(key) ==
    {key, Upper(key), <<" ">> \o key \o <<"\t", "\n">>,
     <<"\r", " ">> \o Upper(key) \o <<" ">>,
     <<Head(key)>> \o <<" ">> \o Tail(key)}

OtherNames ==
    {<<>>, <<" ">>, <<"d", "o", "g">>, <<"p", "h", "o", "n", "e", "s">>,
     <<"c", "e", "l", "l", " ", " ", "p", "h", "o", "n", "e">>,
     <<"p", "e", "n">>}

ClassNames ==
    UNION {Decorated(CLASS_MAPPING[n][1]) : n \in 1..Len(CLASS_MAPPING)}
        \cup OtherNames

(***************************************************************************)
(* State                                                                   *)
(***************************************************************************)
VARIABLES
    pc,             \* where the program is
    raw,            \* the raw datasets directory read by prepare_dataset
    out,            \* the merge output directory
    dataset_index,  \* the index of the loop over ROBOFLOW_DATASETS
    total_train,    \* prepare_dataset's total_train
    total_valid,    \* prepare_dataset's total_valid
    ret,            \* the value prepare_dataset returned, <<>> before it returns
    err,            \* the exception that ended the run, "" when none
    runs,           \* the number of the current run
    snapshots,      \* the output directory as each run found it
    copied,         \* the copies the current run made (for the properties)
    store,          \* download_datasets: the state of each dataset directory
    commands,       \* download_datasets: the os.system calls made so far
    existed,        \* the directories that existed when the current run began
    name_in,        \* normalize_class: the argument
    result          \* normalize_class: <<the value returned>>, <<>> before

vars ==
    <<pc, raw, out, dataset_index, total_train, total_valid, ret, err, runs,
      snapshots, copied, store, commands, existed, name_in, result>>

fetchVars == <<store, commands, existed>>

normVars == <<name_in, result>>

\* The raw directory built from its parts.
MkRaw(dirs, y, imgs, lbls) ==
    [dirs |-> dirs,
     yaml |-> [d \in Datasets |-> IF d \in dirs THEN y[d] ELSE NoYaml],
     images |-> imgs,
     labels |-> lbls]

\* The variables of prepare_dataset before it runs, the output directory
\* being as an earlier run or nobody left it.
MergeInit ==
    /\ out \in PriorOutputs
    /\ dataset_index = 0
    /\ total_train = 0
    /\ total_valid = 0
    /\ ret = <<>>
    /\ err = ""
    /\ snapshots = <<>>
    /\ copied = {}

FetchIdle ==
    /\ store = [d \in Datasets |-> "absent"]
    /\ commands = {}
    /\ existed = {}

NormIdle ==
    /\ name_in = <<>>
    /\ result = <<>>

(***************************************************************************)
(* prepare_dataset                                                         *)
(***************************************************************************)
Init ==
    /\ pc = "prepare"
    /\ \E imgs \in ImageSets :
       \E dirs \in SUBSET CandidateDatasets :
       \E y \in [CandidateDatasets -> YamlChoices] :
       \E present \in SUBSET LabelKeys(imgs) :
       \E lbls \in [present -> LabelChoices] :
          /\ {e[1] : e \in imgs} \subseteq dirs
          /\ raw = MkRaw(dirs, y, imgs, lbls)
    /\ runs = 1
    /\ MergeInit
    /\ FetchIdle
    /\ NormIdle

\* The entry of prepare_dataset: the output directory is cleared when it
\* exists and the totals start at 0.
PrepareStart ==
    /\ pc = "prepare"
    /\ snapshots' = Append(snapshots, out)
    /\ out' = IF out.exists THEN Rmtree(out) ELSE out
    /\ total_train' = 0
    /\ total_valid' = 0
    /\ dataset_index' = 1
    /\ copied' = {}
    /\ pc' = "loop"
    /\ UNCHANGED <<raw, ret, err, runs, fetchVars, normVars>>

\* An iteration of the loop for a dataset whose directory does not exist.
LoopSkip ==
    /\ pc = "loop"
    /\ dataset_index <= Len(ROBOFLOW_DATASETS)
    /\ dataset_index \notin raw.dirs
    /\ dataset_index' = dataset_index + 1
    /\ UNCHANGED <<pc, raw, out, total_train, total_valid, ret, err, runs,
                   snapshots, copied, fetchVars, normVars>>

\* An iteration of the loop for a dataset whose directory exists: the two
\* calls of convert_labels, each under some listing order of the folders;
\* an exception in a call ends the run.
LoopProcess ==
    /\ pc = "loop"
    /\ dataset_index <= Len(ROBOFLOW_DATASETS)
    /\ dataset_index \in raw.dirs
    /\ \E ordT \in ListOrders(raw, dataset_index), ordV \in ListOrders(raw, dataset_index) :
       \E t \in {convert_labels(out, raw, dataset_index, "train", ordT)} :
       \E v \in {convert_labels(t.out, raw, dataset_index, "valid", ordV)} :
              IF t.raised
              THEN /\ out' = t.out
                   /\ copied' = copied \cup t.copied
                   /\ pc' = "raised"
                   /\ err' = t.error
                   /\ UNCHANGED <<dataset_index, total_train, total_valid>>
              ELSE IF v.raised
              THEN /\ out' = v.out
                   /\ copied' = copied \cup t.copied \cup v.copied
                   /\ pc' = "raised"
                   /\ err' = v.error
                   /\ UNCHANGED <<dataset_index, total_train, total_valid>>
              ELSE /\ out' = v.out
                   /\ copied' = copied \cup t.copied \cup v.copied
                   /\ total_train' = total_train + t.count
                   /\ total_valid' = total_valid + v.count
                   /\ dataset_index' = dataset_index + 1
                   /\ UNCHANGED <<pc, err>>
    /\ UNCHANGED <<raw, ret, runs, snapshots, fetchVars, normVars>>

\* After the loop: the manifest is written and its path returned; open()
\* raises FileNotFoundError when the output directory does not exist.
WriteManifest ==
    /\ pc = "loop"
    /\ dataset_index > Len(ROBOFLOW_DATASETS)
    /\ IF out.exists
       THEN /\ out' = [out EXCEPT !.files = WriteFile(@, ManifestPath, Manifest)]
            /\ ret' = ManifestPath
            /\ pc' = "returned"
            /\ err' = err
       ELSE /\ pc' = "raised"
            /\ err' = "FileNotFoundError"
            /\ UNCHANGED <<out, ret>>
    /\ UNCHANGED <<raw, dataset_index, total_train, total_valid, runs, snapshots,
                   copied, fetchVars, normVars>>

\* prepare_dataset is run again on the same raw datasets.
Rerun ==
    /\ pc = "returned"
    /\ runs < MaxRuns
    /\ runs' = runs + 1
    /\ ret' = <<>>
    /\ pc' = "prepare"
    /\ UNCHANGED <<raw, out, dataset_index, total_train, total_valid, err,
                   snapshots, copied, fetchVars, normVars>>

Next == PrepareStart \/ LoopSkip \/ LoopProcess \/ WriteManifest \/ Rerun

Spec == Init /\ [][Next]_vars

(***************************************************************************)
(* download_datasets, run MaxRuns times in a row                           *)
(***************************************************************************)
MergeIdle ==
    /\ raw = MkRaw({}, [d \in CandidateDatasets |-> NoYaml], {}, <<>>)
    /\ out = NoOutput
    /\ dataset_index = 0
    /\ total_train = 0
    /\ total_valid = 0
    /\ ret = <<>>
    /\ err = ""
    /\ snapshots = <<>>
    /\ copied = {}

InitFetch ==
    /\ pc = "fetch"
    /\ store \in [Datasets -> DirStates]
    /\ commands = {}
    /\ existed = {}
    /\ runs = 1
    /\ MergeIdle
    /\ NormIdle

\* The entry of download_datasets (the raw directory itself is created when
\* it is missing).
FetchStart ==
    /\ pc = "fetch"
    /\ existed' = {d \in Datasets : store[d] # "absent"}
    /\ dataset_index' = 1
    /\ pc' = "fetching"
    /\ UNCHANGED <<raw, out, total_train, total_valid, ret, err, runs, snapshots,
                   copied, store, commands, normVars>>

\* An iteration for a dataset whose directory exists: nothing is done.
FetchSkip ==
    /\ pc = "fetching"
    /\ dataset_index <= Len(ROBOFLOW_DATASETS)
    /\ DirExists(store[dataset_index])
    /\ dataset_index' = dataset_index + 1
    /\ UNCHANGED <<pc, raw, out, total_train, total_valid, ret, err, runs,
                   snapshots, copied, fetchVars, normVars>>

\* An iteration for a dataset whose directory does not exist: the directory
\* is created and the three commands are run; their exit status is not
\* looked at, so the directory is left complete or incomplete.
FetchDownload ==
    /\ pc = "fetching"
    /\ dataset_index <= Len(ROBOFLOW_DATASETS)
    /\ ~DirExists(store[dataset_index])
    /\ commands' = commands \cup DownloadCommands(runs, dataset_index)
    /\ \E left \in {"incomplete", "complete"} :
          store' = [store EXCEPT ![dataset_index] = left]
    /\ dataset_index' = dataset_index + 1
    /\ UNCHANGED <<pc, raw, out, total_train, total_valid, ret, err, runs,
                   snapshots, copied, existed, normVars>>

\* The end of the loop: download_datasets returns.
FetchDone ==
    /\ pc = "fetching"
    /\ dataset_index > Len(ROBOFLOW_DATASETS)
    /\ pc' = "fetched"
    /\ UNCHANGED <<raw, out, dataset_index, total_train, total_valid, ret, err,
                   runs, snapshots, copied, fetchVars, normVars>>

\* download_datasets is run again, nothing having been deleted.
FetchAgain ==
    /\ pc = "fetched"
    /\ runs < MaxRuns
    /\ runs' = runs + 1
    /\ pc' = "fetch"
    /\ UNCHANGED <<raw, out, dataset_index, total_train, total_valid, ret, err,
                   snapshots, copied, fetchVars, normVars>>

NextFetch == FetchStart \/ FetchSkip \/ FetchDownload \/ FetchDone \/ FetchAgain

SpecFetch == InitFetch /\ [][NextFetch]_vars

(***************************************************************************)
(* normalize_class, applied to one string                                  *)
(***************************************************************************)
InitNorm ==
    /\ pc = "normalize"
    /\ name_in \in ClassNames
    /\ result = <<>>
    /\ runs = 1
    /\ MergeIdle
    /\ FetchIdle

NormalizeCall ==
    /\ pc = "normalize"
    /\ result' = <<normalize_class(name_in)>>
    /\ pc' = "normalized"
    /\ UNCHANGED <<raw, out, dataset_index, total_train, total_valid, ret, err,
                   runs, snapshots, copied, fetchVars, name_in>>

NextNorm == NormalizeCall

SpecNorm == InitNorm /\ [][NextNorm]_vars

(***************************************************************************)
(* Properties                                                              *)
(***************************************************************************)
\* The paths of the merged label files and of the copied images.
LabelPaths(files) == {p \in DOMAIN files : files[p].kind = "label"}

ImagePaths(files) == {p \in DOMAIN files : files[p].kind = "image"}

\* The fields of every line of the label files of the inputs, and of every
\* line convert_labels makes of them, as explicit functions.
SourceFields ==
    [l \in UNION {{c[n] : n \in 1..Len(c)} : c \in LabelChoices} |->
        Split(Strip(l))] @@ <<>>

WrittenFields ==
    [l \in UNION {{LabelResults[c].new_lines[n] :
                      n \in 1..Len(LabelResults[c].new_lines)} :
                  c \in DOMAIN LabelResults} |-> Split(l)] @@ <<>>

\* The fields of a source line.
FieldsOf(l) == IF l \in DOMAIN SourceFields THEN SourceFields[l] ELSE Split(Strip(l))

\* The fields of a line of a merged label file.
WrittenParts(l) == IF l \in DOMAIN WrittenFields THEN WrittenFields[l] ELSE Split(l)

\* The fields of the source line that line n of the merged label file f was
\* made from.
SourceParts(f, n) == FieldsOf(raw.labels[f.from][f.idx[n]])

\* Whether the folders a and b of the output hold the same file names with
\* the same contents.
SameFolder(files, a, b) ==
    \A name \in {p[2] : p \in DOMAIN files} :
        /\ <<a, name>> \in DOMAIN files <=> <<b, name>> \in DOMAIN files
        /\ <<a, name>> \in DOMAIN files => files[<<a, name>>] = files[<<b, name>>]

\* C1: normalize_class returns, for a string that lower-cased and trimmed is
\* a key of CLASS_MAPPING, the position in TARGET_CLASSES of the class the
\* key maps to, and -1 for every other string.
C1_NormalizeContract ==
    pc = "normalized" =>
        LET key == Strip(Lower(name_in))
        IN  IF \E n \in 1..Len(CLASS_MAPPING) : CLASS_MAPPING[n][1] = key
            THEN /\ result[1] \in 0..(Len(TARGET_CLASSES) - 1)
                 /\ \A n \in 1..Len(CLASS_MAPPING) :
                        CLASS_MAPPING[n][1] = key =>
                            TARGET_CLASSES[result[1] + 1] = CLASS_MAPPING[n][2]
            ELSE result = <<-1>>

\* A synonym of phone in capitals and within whitespace was normalized to 1.
C1_Witness ==
    /\ pc = "normalized"
    /\ name_in # <<>>
    /\ Head(name_in) \in WHITESPACE
    /\ name_in # Lower(name_in)
    /\ result = <<1>>

\* C2: every line of a merged label file comes from a source line whose
\* class index is in 0..len(names)-1 for the names of its dataset; a line
\* with any other index, a negative one included, leaves nothing in the
\* merged output.
C2_OutOfRangeDropped ==
    \A p \in LabelPaths(out.files) :
        \A n \in 1..Len(out.files[p].idx) :
            LET old == ParseInt(SourceParts(out.files[p], n)[1])
            IN  /\ old.ok
                /\ old.val \in 0..(Len(raw.yaml[out.files[p].from[1]].names) - 1)

\* C3: when prepare_dataset returns, no file of the content it found in the
\* output directory is left, and a run that follows another on the same raw
\* datasets leaves the output directory as the run before left it.
C3_RerunReplaces ==
    pc = "returned" =>
        /\ \A p \in DOMAIN out.files : out.files[p].kind # "stale"
        /\ runs >= 2 => out = snapshots[runs]

\* The second run in a row returned, the first having found stale content,
\* and a label file now stands where a stale file was.
C3_Witness ==
    /\ pc = "returned"
    /\ runs = 2
    /\ snapshots[1] = StaleOutput
    /\ <<"train/labels", DstName(1, LabelFileOf(A_JPG))>> \in LabelPaths(out.files)

\* The raw directory of one dataset with one image and one label line whose
\* class name is a synonym of phone.
SingleInput ==
    /\ raw.dirs = {1}
    /\ raw.yaml[1] = [found |-> TRUE, names |-> NAMES_MIXED]
    /\ raw.images = {<<1, "train", A_JPG>>}
    /\ raw.labels = [f \in {<<1, "train", LabelFileOf(A_JPG)>>} |-> LBL_SINGLE]

\* C4: for one dataset with one image and one label line naming a known
\* synonym, the merged output directory holds exactly one image and exactly
\* one label file after prepare_dataset, the label file carrying the
\* canonical index.
C4_SingleImageMerged ==
    (SingleInput /\ pc = "returned") =>
        /\ Cardinality(ImagePaths(out.files)) = 1
        /\ Cardinality(LabelPaths(out.files)) = 1
        /\ \A p \in LabelPaths(out.files) :
               out.files[p].lines = << <<"1", " ", ".", "5", " ", ".", "5", " ", ".", "2", " ", ".", "3">> >>

\* C5: no command of the current run is for a dataset whose directory existed
\* when the run began, and runs after the first one, nothing having been
\* deleted, make no command at all.
C5_NoCommandForExisting ==
    /\ \A c \in commands : c.run = runs => c.dataset \notin existed
    /\ \A c \in commands : c.run = 1

\* The second run is over and a directory the first run left incomplete is
\* still incomplete.
C5_Witness ==
    /\ pc = "fetched"
    /\ runs = 2
    /\ \E c \in commands : store[c.dataset] = "incomplete"

\* C6: every line of a merged label file has at least 5 fields and comes
\* from a source line with at least 5 whitespace-separated fields.
C6_ShortLinesDiscarded ==
    \A p \in LabelPaths(out.files) :
        /\ \A n \in 1..Len(out.files[p].lines) : Len(WrittenParts(out.files[p].lines[n])) >= 5
        /\ \A n \in 1..Len(out.files[p].idx) : Len(SourceParts(out.files[p], n)) >= 5

\* A label file was written from a source file whose third line has four
\* fields, and that line is not among the lines kept.
C6_Witness ==
    \E p \in LabelPaths(out.files) :
        /\ raw.labels[out.files[p].from] = LBL_MIXED
        /\ \A n \in 1..Len(out.files[p].idx) : out.files[p].idx[n] # 3

\* C7: with none of the dataset directories in the raw directory,
\* prepare_dataset ends by returning the path of the manifest it wrote.
C7_ManifestWithoutDatasets ==
    (raw.dirs = {} /\ pc \in {"returned", "raised"}) =>
        /\ pc = "returned"
        /\ ret = ManifestPath
        /\ ManifestPath \in DOMAIN out.files
        /\ out.files[ManifestPath] = Manifest

\* The source label file an image is paired with.
SourceLabel(src) == <<src[1], src[2], LabelFileOf(src[3])>>

\* C8: two distinct source images copied into the same merged split have
\* distinct destination image paths, and distinct destination label paths
\* when their label files are distinct.
C8_NoCollisions ==
    \A a \in copied : \A b \in copied :
        (a.split = b.split /\ a.src # b.src) =>
            /\ a.dst_img # b.dst_img
            /\ SourceLabel(a.src) # SourceLabel(b.src) => a.dst_lbl # b.dst_lbl

\* C9: after prepare_dataset the merged train and valid folders hold the same
\* file names with the same contents, and total_train = total_valid.
C9_SplitsIdentical ==
    pc = "returned" =>
        /\ total_train = total_valid
        /\ SameFolder(out.files, "train/images", "valid/images")
        /\ SameFolder(out.files, "train/labels", "valid/labels")

\* prepare_dataset returned having counted a label file, and the merged train
\* folder holds an image of a valid or test folder, the merged valid folder
\* an image of a train folder.
C9_Witness ==
    /\ pc = "returned"
    /\ total_train >= 1
    /\ \E p \in ImagePaths(out.files) : p[1] = "train/images" /\ out.files[p].src[2] # "train"
    /\ \E p \in ImagePaths(out.files) : p[1] = "valid/images" /\ out.files[p].src[2] = "train"

\* C10: every line of a merged label file has the fields of a line of its
\* source file, the first replaced by a canonical index in 0..3 and the
\* others unchanged and in the same order, and the lines of the file follow
\* the order of the source lines they were made from.
C10_OnlyClassFieldChanged ==
    \A p \in LabelPaths(out.files) :
        /\ Len(out.files[p].lines) = Len(out.files[p].idx)
        /\ \A n \in 1..Len(out.files[p].idx) :
            /\ out.files[p].idx[n] \in 1..Len(raw.labels[out.files[p].from])
            /\ n > 1 => out.files[p].idx[n - 1] < out.files[p].idx[n]
            /\ LET src == SourceParts(out.files[p], n)
                   dst == WrittenParts(out.files[p].lines[n])
               IN  /\ Len(dst) = Len(src)
                   /\ dst[1] \in {<<"0">>, <<"1">>, <<"2">>, <<"3">>}
                   /\ \A m \in 2..Len(src) : dst[m] = src[m]

\* A label file of several lines was written whose first line is its source
\* line with the class index replaced.
C10_Witness ==
    \E p \in LabelPaths(out.files) :
        /\ Len(out.files[p].lines) >= 2
        /\ out.files[p].lines[1] # Strip(raw.labels[out.files[p].from][out.files[p].idx[1]])
        /\ WrittenParts(out.files[p].lines[1])[1] # SourceParts(out.files[p], 1)[1]
====
